---- MODULE Spec2Model ----
(***************************************************************************)
(* Model of the climb chart application (src/index.js, class ClimbApp):    *)
(* the parallel download of the climbs and the DOM-ready event, the chart  *)
(* setup done by run(), the checkbox change listener, the update cycle     *)
(* (updateView) that rescales the axes and reprojects every climb, and the *)
(* animated transitions the update cycle schedules.                        *)
(***************************************************************************)
EXTENDS Integers, Sequences, FiniteSets, TLC

\* ------------------------------------------------------------------------
\* Bounds of the model
\* ------------------------------------------------------------------------

\* number of rows of ClimbApp.CLIMBS the modelled session is run with
NumClimbs == 3

\* largest number of update cycles that may happen between two timer frames
MaxScheduled == 2

\* ------------------------------------------------------------------------
\* Values
\* ------------------------------------------------------------------------

\* JavaScript's undefined, as d3.max returns it for an array without values
\* and as an array yields it outside its bounds. Samples and coordinates are
\* never negative in the model, so negative integers are free to stand for
\* the two non-numbers.
Undefined == -1

\* JavaScript's NaN, as a linear scale returns it when its domain or its
\* argument is not a number.
NaN == -2

\* Climb.data before the download callback has stored the fetched object.
\* The code holds null here; no operation of the program reads the samples of
\* a climb before its data is stored, so null is kept as a record without
\* samples, which keeps the helper operators total.
NullData == [distance |-> <<>>, altitude |-> <<>>]

\* the JSON documents a fetch may deliver: parallel arrays of distance and
\* altitude samples, distance non-decreasing. One climb is long and flat, the
\* other short and steep with its summit before its end, so that the largest
\* distance and the largest altitude can come from different climbs.
SampleData ==
    { [distance |-> <<0, 20>>,   altitude |-> <<0, 1>>],
      [distance |-> <<0, 3, 5>>, altitude |-> <<0, 6, 4>>] }

\* the visible flags of the rows of ClimbApp.CLIMBS, in registration order
CLIMBS ==
    << TRUE, FALSE, FALSE, FALSE, TRUE, TRUE, TRUE,
       FALSE, TRUE, FALSE, FALSE, TRUE, FALSE >>

Climbs == 1..NumClimbs

\* The modelled session runs on NumClimbs consecutive rows of the table,
\* starting at the row of "Estrada das Canoas" (visible, hidden, visible,
\* hidden, ...), so that, as with the whole table, more than one climb is
\* visible when the page comes up.
ConfiguredVisible(i) == CLIMBS[((i + 5) % Len(CLIMBS)) + 1]

\* layout constants read from the style sheet by readCSSVariableAsNumber
CssWidth == 120
CssMarginRight == 20
CssHeight == 100
CssPadding == 10

MARGIN_RIGHT == CssMarginRight
WIDTH == CssWidth - MARGIN_RIGHT
HEIGHT == CssHeight
PADDING == CssPadding

\* a scale that has not been created yet (this.distanceScale = null)
NoScale == <<>>

VARIABLES
    fetch,                  \* per climb: "pending", "ok" or "failed"
    data,                   \* per climb: Climb.data
    domReady,               \* the promise of waitForDomContentLoaded is resolved
    runState,               \* run(): "awaiting", "rejected" or "done"
    visible,                \* per climb: Climb.visible
    numberOfVisibleClimbs,  \* ClimbApp.numberOfVisibleClimbs
    checkboxes,             \* the inputs under checkBoxContainer, in DOM order
    distanceScale,          \* domain of this.distanceScale, or NoScale
    altitudeScale,          \* domain of this.altitudeScale, or NoScale
    axesDrawn,              \* xAxisGroup and yAxisGroup exist
    climbPairs,             \* per climb: Climb.climbPairs
    groups                  \* the climbs' svg groups, in DOM order

vars == << fetch, data, domReady, runState, visible, numberOfVisibleClimbs,
           checkboxes, distanceScale, altitudeScale, axesDrawn, climbPairs,
           groups >>

\* ------------------------------------------------------------------------
\* d3 helpers
\* ------------------------------------------------------------------------

RECURSIVE D3MaxFrom(_, _, _)
D3MaxFrom(values, k, best) ==
    IF k > Len(values) THEN best
    ELSE LET v == values[k]
         IN  D3MaxFrom(values, k + 1,
                 IF v = Undefined \/ v = NaN THEN best
                 ELSE IF best = Undefined THEN v
                 ELSE IF v > best THEN v ELSE best)

\* d3.max(array): the largest value, ignoring undefined and NaN; undefined
\* when there is none
D3Max(values) == D3MaxFrom(values, 1, Undefined)

\* d3.scaleLinear().range([r0, r1]).domain(domain) applied to x; the
\* coordinate is kept as an integer, rounded down
Scale(domain, r0, r1, x) ==
    IF x = Undefined \/ x = NaN \/ domain[1] = Undefined \/ domain[2] = Undefined
    THEN NaN
    ELSE IF domain[2] = domain[1] THEN r0
    ELSE r0 + ((x - domain[1]) * (r1 - r0)) \div (domain[2] - domain[1])

DistanceScaleAt(domain, x) == Scale(domain, PADDING, WIDTH - PADDING, x)

AltitudeScaleAt(domain, y) == Scale(domain, HEIGHT - PADDING * 2, PADDING, y)

\* this.lineFunction applied to a climb's pairs under the given domains
LineFunction(dDomain, aDomain, pairs) ==
    [k \in 1..Len(pairs) |->
        << DistanceScaleAt(dDomain, pairs[k][1]),
           AltitudeScaleAt(aDomain, pairs[k][2]) >>]

\* (nameX, nameY): the projection of the last pair
NamePosition(dDomain, aDomain, pairs) ==
    IF Len(pairs) = 0 THEN << NaN, NaN >>
    ELSE << DistanceScaleAt(dDomain, pairs[Len(pairs)][1]),
            AltitudeScaleAt(aDomain, pairs[Len(pairs)][2]) >>

\* ------------------------------------------------------------------------
\* Domain extent
\* ------------------------------------------------------------------------

\* variant without the filter: every climb counts for the domain extent
VisibleClimbs_All(vis) == [i \in 1..NumClimbs |-> i]

\* this.climbs.filter(climb => climb.visible), as the sequence of their ids
VisibleClimbs(vis) ==
    SelectSeq([i \in 1..NumClimbs |-> i], LAMBDA i : vis[i])

\* climb.data.distance[climb.data.distance.length - 1]
LastDistance(d) ==
    IF Len(d.distance) = 0 THEN Undefined ELSE d.distance[Len(d.distance)]

MaximumDistance(vis, dat) ==
    LET vc == VisibleClimbs(vis)
    IN  D3Max([k \in 1..Len(vc) |-> LastDistance(dat[vc[k]])])

MaximumAltitude(vis, dat) ==
    LET vc == VisibleClimbs(vis)
    IN  D3Max([k \in 1..Len(vc) |-> D3Max(dat[vc[k]].altitude)])

\* ------------------------------------------------------------------------
\* Loading
\* ------------------------------------------------------------------------

Init ==
    /\ fetch = [i \in Climbs |-> "pending"]
    /\ data = [i \in Climbs |-> NullData]
    /\ domReady \in BOOLEAN
    /\ runState = "awaiting"
    /\ visible = [i \in Climbs |-> ConfiguredVisible(i)]
    /\ numberOfVisibleClimbs = 0
    /\ checkboxes = <<>>
    /\ distanceScale = NoScale
    /\ altitudeScale = NoScale
    /\ axesDrawn = FALSE
    /\ climbPairs = [i \in Climbs |-> <<>>]
    /\ groups = <<>>

\* downloadJson(url): d3.json calls back with the document and the promise
\* resolves; the .then of downloadData stores it in climb.data
FetchSucceed(i) ==
    /\ fetch[i] = "pending"
    /\ \E d \in SampleData :
          /\ fetch' = [fetch EXCEPT ![i] = "ok"]
          /\ data' = [data EXCEPT ![i] = d]
    /\ UNCHANGED << domReady, runState, visible, numberOfVisibleClimbs,
                    checkboxes, distanceScale, altitudeScale, axesDrawn,
                    climbPairs, groups >>

\* downloadJson(url): d3.json calls back with an error and the promise is
\* rejected; climb.data stays null
FetchFail(i) ==
    /\ fetch[i] = "pending"
    /\ fetch' = [fetch EXCEPT ![i] = "failed"]
    /\ UNCHANGED << data, domReady, runState, visible, numberOfVisibleClimbs,
                    checkboxes, distanceScale, altitudeScale, axesDrawn,
                    climbPairs, groups >>

\* the DOMContentLoaded listener registered by waitForDomContentLoaded
DomContentLoaded ==
    /\ ~domReady
    /\ domReady' = TRUE
    /\ UNCHANGED << fetch, data, runState, visible, numberOfVisibleClimbs,
                    checkboxes, distanceScale, altitudeScale, axesDrawn,
                    climbPairs, groups >>

\* variant that waits for the fetches to settle, failed or not
DownloadFulfilled_Settled(f) == \A i \in Climbs : f[i] # "pending"

\* Promise.all over the per-climb promises is fulfilled
DownloadFulfilled(f) == \A i \in Climbs : f[i] = "ok"

\* Promise.all over the per-climb promises is rejected
DownloadRejected(f) == \E i \in Climbs : f[i] = "failed"

\* variant that awaits the download only
AllFulfilled_DownloadOnly(f, dom) == \A i \in Climbs : f[i] = "ok"

\* Promise.all([downloadPromise, domPromise]) is fulfilled
AllFulfilled(f, dom) == DownloadFulfilled(f) /\ dom

\* the await of run() throws: the rest of run() is never executed
RunReject ==
    /\ runState = "awaiting"
    /\ DownloadRejected(fetch)
    /\ runState' = "rejected"
    /\ UNCHANGED << fetch, data, domReady, visible, numberOfVisibleClimbs,
                    checkboxes, distanceScale, altitudeScale, axesDrawn,
                    climbPairs, groups >>

\* ------------------------------------------------------------------------
\* Chart setup
\* ------------------------------------------------------------------------

\* makeCheckbox: the clone of the template; the checked attribute is set for
\* a visible climb and removed otherwise, the checked state of the input
\* starts as its attribute says
MakeCheckbox(vis) ==
    [checkedAttr |-> vis, checked |-> vis, disabled |-> FALSE]

\* variant that cuts the pairs to the shorter of the two arrays
MakePairs_ZipShorter(d) ==
    [k \in 1..(IF Len(d.distance) <= Len(d.altitude)
               THEN Len(d.distance) ELSE Len(d.altitude)) |->
        << d.distance[k], d.altitude[k] >>]

\* climb.data.distance.map((distance, i) => [distance, climb.data.altitude[i]])
MakePairs(d) ==
    [k \in 1..Len(d.distance) |->
        << d.distance[k],
           IF k <= Len(d.altitude) THEN d.altitude[k] ELSE Undefined >>]

\* an attribute that holds exactly the value v
Exactly(v) == [at |-> v, moving |-> FALSE]

\* an attribute that a running transition is interpolating towards v
Towards(v) == [at |-> v, moving |-> TRUE]

\* makeClimbPath: the group of a climb, its path and its name
MakeClimbPath(vis, pairs, dDomain, aDomain) ==
    [ hidden    |-> ~vis,
      d         |-> Exactly(LineFunction(dDomain, aDomain, pairs)),
      transform |-> Exactly(NamePosition(dDomain, aDomain, pairs)),
      scheduled |-> <<>>,
      running   |-> <<>> ]

\* variant that counts every climb, visible or not
CountVisibleFrom_All(vis, k, n) == n + NumClimbs

RECURSIVE CountVisibleFrom(_, _, _)
\* the loop of run(): numberOfVisibleClimbs++ for every visible climb
CountVisibleFrom(vis, k, n) ==
    IF k > NumClimbs THEN n
    ELSE CountVisibleFrom(vis, k + 1, IF vis[k] THEN n + 1 ELSE n)

\* run() after its await: prepareChart, then loadClimbComponents per climb
RunSetup ==
    /\ runState = "awaiting"
    /\ AllFulfilled(fetch, domReady)
    /\ LET dDomain == << 0, MaximumDistance(visible, data) >>
           aDomain == << 0, MaximumAltitude(visible, data) >>
           pairs   == [i \in Climbs |-> MakePairs(data[i])]
       IN  /\ distanceScale' = dDomain
           /\ altitudeScale' = aDomain
           /\ axesDrawn' = TRUE
           /\ checkboxes' = [i \in 1..NumClimbs |-> MakeCheckbox(visible[i])]
           /\ climbPairs' = pairs
           /\ groups' = [i \in 1..NumClimbs |->
                            MakeClimbPath(visible[i], pairs[i], dDomain, aDomain)]
    /\ numberOfVisibleClimbs' = CountVisibleFrom(visible, 1, numberOfVisibleClimbs)
    /\ runState' = "done"
    /\ UNCHANGED << fetch, data, domReady, visible >>

\* ------------------------------------------------------------------------
\* Update cycle
\* ------------------------------------------------------------------------

\* variant that sets the domains after the first climb of the loop
ScalesAtReprojection_AfterFirst(k, old, new) == IF k = 1 THEN old ELSE new

\* the domains the scales hold when updateClimbPath reads them for the k-th
\* climb of the loop: updateView sets both domains before its loop
ScalesAtReprojection(k, old, new) == new

\* variant that updates the visible climbs only
ClimbsToReproject_VisibleOnly(vis) == { i \in Climbs : vis[i] }

\* the climbs updateView calls updateClimbPath for: all of this.climbs
ClimbsToReproject(vis) == Climbs

\* variant that schedules the transitions and leaves the hidden class alone
UpdateClimbPath_NoClass(g, vis, pairs, dDomain, aDomain) ==
    [g EXCEPT
        !.scheduled = Append(@, [ transform |-> NamePosition(dDomain, aDomain, pairs),
                                  scales    |-> << dDomain, aDomain >> ])]

\* updateClimbPath: a transition of the path towards this.lineFunction (a
\* function, evaluated when the transition starts), a transition of the name
\* towards the position computed now, and the hidden class
UpdateClimbPath(g, vis, pairs, dDomain, aDomain) ==
    [g EXCEPT
        !.scheduled = Append(@, [ transform |-> NamePosition(dDomain, aDomain, pairs),
                                  scales    |-> << dDomain, aDomain >> ]),
        !.hidden = ~vis]

\* updateView, with the visible flags as the change listener has left them
UpdateView(vis) ==
    LET dDomain == << 0, MaximumDistance(vis, data) >>
        aDomain == << 0, MaximumAltitude(vis, data) >>
        seen(k) == ScalesAtReprojection(k, << distanceScale, altitudeScale >>,
                                        << dDomain, aDomain >>)
    IN  /\ distanceScale' = dDomain
        /\ altitudeScale' = aDomain
        /\ groups' = [i \in 1..Len(groups) |->
                         IF i \in ClimbsToReproject(vis)
                         THEN UpdateClimbPath(groups[i], vis[i], climbPairs[i],
                                              seen(i)[1], seen(i)[2])
                         ELSE groups[i]]

\* ------------------------------------------------------------------------
\* Checkboxes
\* ------------------------------------------------------------------------

\* the smallest element of a set of indices, 0 when the set is empty: the
\* first match of a d3 select in DOM order, if any
FirstOf(indices) ==
    IF indices = {} THEN 0
    ELSE CHOOSE k \in indices : \A j \in indices : k <= j

\* d3.select(this.checkBoxContainer).select('input[checked]').attr('disabled', ''):
\* the selector matches the checked attribute, set by makeCheckbox
DisableSelected(boxes) ==
    LET k == FirstOf({ j \in 1..Len(boxes) : boxes[j].checkedAttr })
    IN  IF k = 0 THEN boxes ELSE [boxes EXCEPT ![k].disabled = TRUE]

\* d3.select(this.checkBoxContainer).select('input[disabled]').attr('disabled', null)
EnableSelected(boxes) ==
    LET k == FirstOf({ j \in 1..Len(boxes) : boxes[j].disabled })
    IN  IF k = 0 THEN boxes ELSE [boxes EXCEPT ![k].disabled = FALSE]

\* the user clicks the checkbox of climb i: the browser flips its checked
\* state and fires change, unless the input is disabled; then the listener
\* registered by makeCheckbox runs, updateView included
Toggle(i) ==
    /\ runState = "done"
    /\ ~checkboxes[i].disabled
    /\ \A j \in Climbs : Len(groups[j].scheduled) < MaxScheduled
    /\ LET checked == ~checkboxes[i].checked
           vis     == [visible EXCEPT ![i] = checked]
           n       == numberOfVisibleClimbs + (IF checked THEN 1 ELSE -1)
           flipped == [checkboxes EXCEPT ![i].checked = checked]
       IN  /\ visible' = vis
           /\ numberOfVisibleClimbs' = n
           /\ checkboxes' = IF n = 1 THEN DisableSelected(flipped)
                                     ELSE EnableSelected(flipped)
           /\ UpdateView(vis)
    /\ UNCHANGED << fetch, data, domReady, runState, axesDrawn, climbPairs >>

\* ------------------------------------------------------------------------
\* Transitions (d3-transition, as scheduled by updateClimbPath)
\* ------------------------------------------------------------------------

\* what a starting transition leaves of the transitions already running on
\* its element: it interrupts them
Preempt(running) == <<>>

\* variant in which the oldest scheduled transition wins and the running
\* one is left to run
StartTransition_Oldest(g, pairs, dDomain, aDomain) ==
    LET oldest == g.scheduled[1]
        target == [ d         |-> LineFunction(oldest.scales[1], oldest.scales[2], pairs),
                    transform |-> oldest.transform ]
    IN  [g EXCEPT
            !.scheduled = <<>>,
            !.running = Append(@, target),
            !.d = Towards(target.d),
            !.transform = Towards(target.transform)]

\* the newest scheduled transition of a group starts: it cancels the older
\* scheduled ones, interrupts the running one, evaluates this.lineFunction
\* with the domains the scales hold now and takes the attributes over
StartTransition(g, pairs, dDomain, aDomain) ==
    LET newest == g.scheduled[Len(g.scheduled)]
        target == [ d         |-> LineFunction(dDomain, aDomain, pairs),
                    transform |-> newest.transform ]
    IN  [g EXCEPT
            !.scheduled = <<>>,
            !.running = Append(Preempt(@), target),
            !.d = Towards(target.d),
            !.transform = Towards(target.transform)]

\* a timer frame in which the transitions scheduled since the last frame start
TimerStart ==
    /\ runState = "done"
    /\ \E j \in Climbs : groups[j].scheduled # <<>>
    /\ groups' = [i \in 1..Len(groups) |->
                     IF groups[i].scheduled # <<>>
                     THEN StartTransition(groups[i], climbPairs[i],
                                          distanceScale, altitudeScale)
                     ELSE groups[i]]
    /\ UNCHANGED << fetch, data, domReady, runState, visible,
                    numberOfVisibleClimbs, checkboxes, distanceScale,
                    altitudeScale, axesDrawn, climbPairs >>

\* the running transition of a group reaches its duration: its last tick sets
\* the attributes to their targets
EndTransition(g) ==
    LET ending == Head(g.running)
    IN  [g EXCEPT
            !.running = Tail(@),
            !.d = Exactly(ending.d),
            !.transform = Exactly(ending.transform)]

\* a timer frame in which the running transitions end
TimerEnd ==
    /\ runState = "done"
    /\ \E j \in Climbs : groups[j].running # <<>>
    /\ groups' = [i \in 1..Len(groups) |->
                     IF groups[i].running # <<>>
                     THEN EndTransition(groups[i])
                     ELSE groups[i]]
    /\ UNCHANGED << fetch, data, domReady, runState, visible,
                    numberOfVisibleClimbs, checkboxes, distanceScale,
                    altitudeScale, axesDrawn, climbPairs >>

\* ------------------------------------------------------------------------
\* Specifications
\* ------------------------------------------------------------------------

Next ==
    \/ \E i \in Climbs : FetchSucceed(i)
    \/ \E i \in Climbs : FetchFail(i)
    \/ DomContentLoaded
    \/ RunReject
    \/ RunSetup
    \/ \E i \in Climbs : Toggle(i)
    \/ TimerStart
    \/ TimerEnd

Spec == Init /\ [][Next]_vars

\* the browser keeps delivering timer frames
FairSpec == Spec /\ WF_vars(TimerStart) /\ WF_vars(TimerEnd)

\* updateView run once more with the visible flags as they are: the second of
\* two update cycles in succession with no visibility change in between
UpdateViewAgain ==
    /\ runState = "done"
    /\ \A j \in Climbs : Len(groups[j].scheduled) < MaxScheduled
    /\ UpdateView(visible)
    /\ UNCHANGED << fetch, data, domReady, runState, visible,
                    numberOfVisibleClimbs, checkboxes, axesDrawn, climbPairs >>

NextAgain ==
    \/ Next
    \/ UpdateViewAgain

\* the application with update cycles that may be repeated
AgainSpec == Init /\ [][NextAgain]_vars

\* documents whose arrays need not have the same length: equal lengths, an
\* altitude array that is shorter, a distance array that is shorter. The
\* distance array is never empty (makeClimbPath reads the last pair).
PairDocuments ==
    { [distance |-> <<0, 20>>,   altitude |-> <<0, 1>>],
      [distance |-> <<0, 3, 5>>, altitude |-> <<0, 6, 4>>],
      [distance |-> <<0, 3, 5>>, altitude |-> <<0, 6>>],
      [distance |-> <<0, 5>>,    altitude |-> <<0, 6, 4>>] }

\* run() at its await with every fetch fulfilled, each by one of the documents
\* above, and the DOM ready
PairsInit ==
    /\ fetch = [i \in Climbs |-> "ok"]
    /\ data \in [Climbs -> PairDocuments]
    /\ domReady = TRUE
    /\ runState = "awaiting"
    /\ visible = [i \in Climbs |-> ConfiguredVisible(i)]
    /\ numberOfVisibleClimbs = 0
    /\ checkboxes = <<>>
    /\ distanceScale = NoScale
    /\ altitudeScale = NoScale
    /\ axesDrawn = FALSE
    /\ climbPairs = [i \in Climbs |-> <<>>]
    /\ groups = <<>>

PairsNext == RunSetup

\* the chart setup, which builds the pairs, over documents of any shape
PairsSpec == PairsInit /\ [][PairsNext]_vars

\* ------------------------------------------------------------------------
\* Properties
\* ------------------------------------------------------------------------

VisibleSet == { i \in Climbs : visible[i] }

DisabledSet == { i \in Climbs : checkboxes[i].disabled }

\* the largest element of a non-empty sequence of numbers is m
IsMaximumOf(m, values) ==
    /\ \E k \in 1..Len(values) : values[k] = m
    /\ \A k \in 1..Len(values) : values[k] <= m

\* C1: once the chart is set up, at least one climb is visible in every
\* reachable state, whatever enabled checkboxes the user toggles.
C1_VisibleCountNeverZero ==
    runState = "done" => VisibleSet # {}

\* C2: while exactly one climb is visible no step makes that climb
\* invisible: the request is rejected and the state stays as it is.
C2_LastVisibleCannotBeHidden ==
    [][ (runState = "done" /\ Cardinality(VisibleSet) = 1)
            => \A i \in VisibleSet : visible'[i] ]_vars

\* C3: after the chart setup and after every update cycle, with a non-empty
\* visible set, the distance domain is [0, largest last distance sample of
\* a visible climb] and the altitude domain is [0, largest altitude sample
\* of a visible climb]; hidden climbs do not contribute.
C3_DomainsAreVisibleMaxima ==
    (runState = "done" /\ VisibleSet # {}) =>
        /\ distanceScale[1] = 0
        /\ altitudeScale[1] = 0
        /\ \E i \in VisibleSet :
              distanceScale[2] = data[i].distance[Len(data[i].distance)]
        /\ \A i \in VisibleSet :
              data[i].distance[Len(data[i].distance)] <= distanceScale[2]
        /\ \E i \in VisibleSet : IsMaximumOf(altitudeScale[2], data[i].altitude)
        /\ \A i \in VisibleSet :
              \A k \in 1..Len(data[i].altitude) :
                  data[i].altitude[k] <= altitudeScale[2]

\* C3 witness: an update cycle has left one climb visible, and a hidden climb
\* reaches further than the distance domain.
C3_Witness ==
    /\ runState = "done"
    /\ \E i \in Climbs : groups[i].scheduled # <<>>
    /\ Cardinality(VisibleSet) = 1
    /\ \E i \in Climbs :
          /\ ~visible[i]
          /\ LastDistance(data[i]) > distanceScale[2]
          /\ D3Max(data[i].altitude) < altitudeScale[2]

\* C4: after every toggle, with one climb visible the disabled checkbox is
\* the one of that climb, and with more than one visible none is disabled.
C4_DisabledIsTheLastVisible ==
    [][ (runState = "done" /\ numberOfVisibleClimbs' # numberOfVisibleClimbs)
            => /\ (numberOfVisibleClimbs' = 1 => DisabledSet' = VisibleSet')
               /\ (numberOfVisibleClimbs' > 1 => DisabledSet' = {}) ]_vars

\* C5: once a fetch has failed, run() never sets the chart up: no axes, no
\* climb group and no checkbox exist.
C5_FailedFetchNoChart ==
    (\E i \in Climbs : fetch[i] = "failed") =>
        /\ runState # "done"
        /\ ~axesDrawn
        /\ groups = <<>>
        /\ checkboxes = <<>>
        /\ distanceScale = NoScale
        /\ altitudeScale = NoScale

\* C5 witness: one fetch has failed, every other fetch has succeeded, the DOM
\* is ready and run() has been rejected.
C5_Witness ==
    /\ Cardinality({ i \in Climbs : fetch[i] = "failed" }) = 1
    /\ Cardinality({ i \in Climbs : fetch[i] = "ok" }) = NumClimbs - 1
    /\ domReady
    /\ runState = "rejected"

\* C6: whenever anything of the chart exists, every fetch has succeeded,
\* every climb's data is stored and the DOM is ready; so nothing is rendered
\* while a fetch is pending.
C6_SetupOnlyWhenAllReady ==
    (runState = "done" \/ axesDrawn \/ groups # <<>> \/ checkboxes # <<>>
        \/ distanceScale # NoScale \/ altitudeScale # NoScale) =>
        /\ \A i \in Climbs : fetch[i] = "ok" /\ data[i] # NullData
        /\ domReady

\* C6 witness: the chart has been set up.
C6_Witness ==
    /\ runState = "done"
    /\ axesDrawn
    /\ Len(groups) = NumClimbs
    /\ Len(checkboxes) = NumClimbs

\* C7: the transitions an update cycle schedules are computed from one pair
\* of domains, the same for every climb, and it is the pair the cycle has
\* set: the newest scheduled name position of every climb was read from the
\* scales as they are now, and the k-th scheduled entries of any two climbs
\* were read from the same pair.
C7_OneScalePerCycle ==
    runState = "done" =>
        /\ \A i \in Climbs :
              groups[i].scheduled # <<>> =>
                  groups[i].scheduled[Len(groups[i].scheduled)].scales
                      = << distanceScale, altitudeScale >>
        /\ \A i, j \in Climbs :
              /\ Len(groups[i].scheduled) = Len(groups[j].scheduled)
              /\ \A k \in 1..Len(groups[i].scheduled) :
                    groups[i].scheduled[k].scales = groups[j].scheduled[k].scales

\* C7 witness: two update cycles are scheduled, each with climbs visible,
\* and the second one has changed the domains of the first.
C7_Witness ==
    /\ runState = "done"
    /\ Len(groups[1].scheduled) = 2
    /\ groups[1].scheduled[1].scales # groups[1].scheduled[2].scales
    /\ \A k \in 1..2 :
          /\ groups[1].scheduled[k].scales[1][2] # Undefined
          /\ groups[1].scheduled[k].scales[2][2] # Undefined

\* the name position the newest transition of climb i leads to, or the one
\* shown when there is no transition
TargetTransform(i) ==
    LET g == groups[i]
    IN  IF g.scheduled # <<>> THEN g.scheduled[Len(g.scheduled)].transform
        ELSE IF g.running # <<>> THEN g.running[Len(g.running)].transform
        ELSE g.transform.at

\* the path geometry the newest started transition of climb i leads to, or
\* the one shown when there is none
TargetPath(i) ==
    LET g == groups[i]
    IN  IF g.running # <<>> THEN g.running[Len(g.running)].d ELSE g.d.at

\* C8: every climb, visible or hidden, has a target name position equal to
\* the projection of its last pair through the current domains; and unless
\* an update cycle is still waiting for its transition to start, a target
\* path equal to the projection of its pairs through the current domains.
C8_EveryClimbReprojected ==
    runState = "done" =>
        \A i \in Climbs :
            /\ TargetTransform(i)
                  = NamePosition(distanceScale, altitudeScale, climbPairs[i])
            /\ groups[i].scheduled = <<>> =>
                  TargetPath(i)
                      = LineFunction(distanceScale, altitudeScale, climbPairs[i])

\* C8 witness: an update cycle has given a hidden climb a name position
\* that differs from the one it is shown at.
C8_Witness ==
    /\ runState = "done"
    /\ \E i \in Climbs :
          /\ ~visible[i]
          /\ groups[i].hidden
          /\ groups[i].scheduled # <<>>
          /\ TargetTransform(i) # groups[i].transform.at
    /\ VisibleSet # {}

\* C9: the scales never hold a domain whose maximum is undefined.
C9_DomainMaximumDefined ==
    /\ distanceScale # NoScale => distanceScale[2] # Undefined
    /\ altitudeScale # NoScale => altitudeScale[2] # Undefined

\* no transition is scheduled or running and every climb is shown exactly at
\* the projection of its pairs through the current domains
Settled ==
    runState = "done" =>
        \A i \in Climbs :
            /\ groups[i].scheduled = <<>>
            /\ groups[i].running = <<>>
            /\ groups[i].d
                  = Exactly(LineFunction(distanceScale, altitudeScale, climbPairs[i]))
            /\ groups[i].transform
                  = Exactly(NamePosition(distanceScale, altitudeScale, climbPairs[i]))

\* at most one transition runs on a climb, and once no update cycle is
\* waiting it leads to the geometry of the most recent update cycle
NewestTransitionOnly ==
    runState = "done" =>
        \A i \in Climbs :
            /\ Len(groups[i].running) <= 1
            /\ (groups[i].scheduled = <<>> /\ groups[i].running # <<>>) =>
                  /\ groups[i].running[1].d
                        = LineFunction(distanceScale, altitudeScale, climbPairs[i])
                  /\ groups[i].running[1].transform
                        = NamePosition(distanceScale, altitudeScale, climbPairs[i])
                  /\ groups[i].d = Towards(groups[i].running[1].d)
                  /\ groups[i].transform = Towards(groups[i].running[1].transform)

\* a step in which a transition sets a climb's geometry for good sets it to
\* the geometry of the newest transition started on that climb
EndSetsNewestTarget ==
    runState = "done" =>
        \A i \in Climbs :
            (groups'[i].d # groups[i].d /\ ~groups'[i].d.moving) =>
                /\ groups[i].running # <<>>
                /\ groups'[i].running = <<>>
                /\ groups'[i].d.at = groups[i].running[Len(groups[i].running)].d
                /\ groups'[i].transform.at
                      = groups[i].running[Len(groups[i].running)].transform

\* C10: for every interleaving of toggles with the start and end of
\* transitions, the transition running on a climb is the newest one and
\* leads to the geometry of the most recent update cycle, a transition that
\* ends sets the geometry of the newest transition, and once the toggles
\* stop every climb is eventually shown, for good, at the projection of its
\* pairs through the final domains.
C10_LastWriterWins ==
    /\ []NewestTransitionOnly
    /\ [][EndSetsNewestTarget]_vars
    /\ (<>[][~(\E i \in Climbs : Toggle(i))]_vars) => <>[]Settled

\* C10 witness: a transition is running on a climb towards one geometry
\* while two later update cycles, with other domains, wait to start.
C10_Witness ==
    /\ runState = "done"
    /\ \E i \in Climbs :
          /\ groups[i].running # <<>>
          /\ Len(groups[i].scheduled) = 2
          /\ groups[i].scheduled[1].transform # groups[i].running[1].transform
          /\ groups[i].scheduled[2].transform # groups[i].scheduled[1].transform
          /\ \A k \in 1..2 : groups[i].scheduled[k].scales[1][2] # Undefined

\* C11: an update cycle run again with no visibility change in between
\* leaves both domains as they are and gives every climb the same name
\* position, the same path geometry and the same hidden class as the run
\* before it.
C11_ReprojectionIdempotent ==
    [][ UpdateViewAgain =>
            /\ distanceScale' = distanceScale
            /\ altitudeScale' = altitudeScale
            /\ \A i \in Climbs :
                  /\ groups'[i].scheduled[Len(groups'[i].scheduled)].transform
                        = TargetTransform(i)
                  /\ LineFunction(distanceScale', altitudeScale', climbPairs'[i])
                        = IF groups[i].scheduled = <<>>
                          THEN TargetPath(i)
                          ELSE LineFunction(groups[i].scheduled[Len(groups[i].scheduled)].scales[1],
                                            groups[i].scheduled[Len(groups[i].scheduled)].scales[2],
                                            climbPairs[i])
                  /\ groups'[i].hidden = groups[i].hidden ]_vars

\* C11 witness: after a toggle that changed the domains, two update cycles
\* with the same domains and the same name position wait on a climb that is
\* shown at another position.
C11_Witness ==
    /\ runState = "done"
    /\ VisibleSet # {}
    /\ \E i \in Climbs :
          /\ Len(groups[i].scheduled) = 2
          /\ groups[i].scheduled[1] = groups[i].scheduled[2]
          /\ groups[i].scheduled[2].transform # groups[i].transform.at

\* C12: once the chart is set up every climb, visible or not, has a group,
\* and after the setup and after every update cycle the group of a climb
\* carries the hidden class if and only if the climb is not visible.
C12_HiddenClassIffNotVisible ==
    runState = "done" =>
        /\ Len(groups) = NumClimbs
        /\ \A i \in Climbs : groups[i].hidden = ~visible[i]

\* C12 witness: a climb hidden at startup is visible and without the class,
\* a climb visible at startup is hidden and carries it.
C12_Witness ==
    /\ runState = "done"
    /\ \E i \in Climbs :
          ~ConfiguredVisible(i) /\ visible[i] /\ ~groups[i].hidden
    /\ \E i \in Climbs :
          ConfiguredVisible(i) /\ ~visible[i] /\ groups[i].hidden

\* the counter equals the number of climbs whose visible flag is true
CounterMatchesFlags ==
    runState = "done" => numberOfVisibleClimbs = Cardinality(VisibleSet)

\* a step that changes a visible flag changes the flag of one climb only, and
\* the counter by +1 if that climb is shown and by -1 if it is hidden
ToggleCountsOne ==
    (runState = "done" /\ visible' # visible) =>
        \E i \in Climbs :
            /\ visible'[i] # visible[i]
            /\ \A j \in Climbs \ {i} : visible'[j] = visible[j]
            /\ numberOfVisibleClimbs'
                  = numberOfVisibleClimbs + (IF visible'[i] THEN 1 ELSE -1)

\* C13: once run() has finished its loop, and after every toggle, the
\* counter numberOfVisibleClimbs equals the number of visible climbs; a
\* toggle changes the counter by exactly one and the flag of its climb only.
C13_CounterTracksVisible ==
    /\ []CounterMatchesFlags
    /\ [][ToggleCountsOne]_vars

\* C13 witness: after toggles in both directions the counter is 1 and the
\* one visible climb is a climb that was hidden at startup.
C13_Witness ==
    /\ runState = "done"
    /\ numberOfVisibleClimbs = 1
    /\ \E i \in Climbs : visible[i] /\ ~ConfiguredVisible(i)

\* the smaller of two numbers
Min(a, b) == IF a <= b THEN a ELSE b

\* C14 as stated: the pair sequence of a climb has min(|distance|,
\* |altitude|) pairs, pair k being (distance[k], altitude[k]), so no pair
\* has a missing coordinate.
C14_PairsCutToShorter ==
    runState = "done" =>
        \A i \in Climbs :
            LET n == Min(Len(data[i].distance), Len(data[i].altitude))
            IN  /\ Len(climbPairs[i]) = n
                /\ \A k \in 1..n :
                      climbPairs[i][k] = << data[i].distance[k], data[i].altitude[k] >>
                /\ \A k \in 1..Len(climbPairs[i]) :
                      /\ climbPairs[i][k][1] # Undefined
                      /\ climbPairs[i][k][2] # Undefined

\* C14, amended: the pair sequence of a climb has |distance| pairs, pair k
\* being (distance[k], altitude[k]); with arrays of equal length there is one
\* pair per sample and the last pair is the last sample; a shorter distance
\* array cuts the sequence, a shorter altitude array does not: the pairs
\* past its end have an undefined altitude.
C14_PairsFollowDistance ==
    runState = "done" =>
        \A i \in Climbs :
            LET d == data[i].distance
                a == data[i].altitude
                p == climbPairs[i]
            IN  /\ Len(p) = Len(d)
                /\ \A k \in 1..Len(p) :
                      /\ p[k][1] = d[k]
                      /\ k <= Len(a) => p[k][2] = a[k]
                      /\ k > Len(a) => p[k][2] = Undefined
                /\ Len(d) = Len(a) =>
                      /\ p[Len(p)] = << d[Len(d)], a[Len(a)] >>
                      /\ \A k \in 1..Len(p) : p[k][2] # Undefined

\* C14 witness: the pairs are built for a climb whose altitude array is
\* shorter, for one whose distance array is shorter and for one with arrays
\* of equal length.
C14_Witness ==
    /\ runState = "done"
    /\ \E i \in Climbs :
          /\ Len(data[i].altitude) < Len(data[i].distance)
          /\ climbPairs[i][Len(climbPairs[i])][2] = Undefined
    /\ \E i \in Climbs :
          /\ Len(data[i].distance) < Len(data[i].altitude)
          /\ Len(climbPairs[i]) = Len(data[i].distance)
    /\ \E i \in Climbs : Len(data[i].distance) = Len(data[i].altitude)

====
